---------------------------- MODULE Spec2Model ----------------------------
(***************************************************************************)
(* Mouse Coordinate Tracker: the tracking controller of the two GUI        *)
(* variants (src/src/mouse_tracker_gui.py, "v1", and                       *)
(* src/src/mouse_tracker_gui_v2.py, "v2") as one state machine.            *)
(*                                                                         *)
(* Everything runs on the Qt event loop, so every handler is one atomic    *)
(* step.  Time is modelled by remaining-time counters on the timers: a Qt  *)
(* timer never fires before its interval has elapsed and may fire late, so *)
(* a timer is "due" once its counter is 0 and fires in some later step.    *)
(* Status texts are the source's texts without their emoji prefix.         *)
(***************************************************************************)
EXTENDS Integers, Sequences, FiniteSets, TLC

VARIABLES
    variant,            \* "v1" = mouse_tracker_gui.py, "v2" = mouse_tracker_gui_v2.py
    MOUSE_LIB,          \* v2 module global: the library the import block selected
    is_working,         \* HighlightOverlay.is_working (v2); v1 has no such flag (TRUE)
    app,                \* "running" | "closed" | "aborted"
    tracking_enabled,
    highlight_enabled,
    timer_active,       \* QTimer.isActive()
    timer_interval,     \* QTimer.interval()
    timer_remaining,    \* ms until the periodic timer is due (0 when inactive)
    current_x,
    current_y,
    x_label,
    y_label,
    overlay_visible,    \* HighlightOverlay.isVisible()
    overlay_geom,       \* HighlightOverlay.geometry(): [x, y, w, h]
    highlight_size,     \* HighlightOverlay.highlight_size
    start_button,       \* start_button.text()
    status_label,       \* status_label.text()
    highlight_checkbox, \* highlight_checkbox.isChecked()
    size_spinbox,       \* size_spinbox.value()
    freq_spinbox,       \* freq_spinbox.value()
    clipboard,          \* QApplication.clipboard().text()
    pending,            \* QTimer.singleShot(3000, reset_status) calls not yet fired
    toggles,            \* history: number of toggle_tracking calls so far
    last_call,          \* history: the step taken last, and what its sampler did
    \* the process around the window: the main() of the script that was started
    program,            \* "gui_v1" | "gui_v2" | "cli": the script that was run
    main_pc,            \* where its main() is
    startup,            \* "none" | "display" | "exception": how GUI start-up failed
    fallback,           \* "none" | "attempted" | "declined": the text-only fallback
    cli_runs,           \* "none" | "main" | "subprocess" | "import": how the CLI loop was entered
    cli_end,            \* "none" | "interrupt" | "error": why the CLI loop ended
    cli_out,            \* the line the CLI printed last
    polls,              \* history: number of positions the CLI loop has printed
    exit_status,        \* "none" | "0" | "1" | "traceback"
    \* the saved-coordinates revision of the controller
    saved_list,         \* SavedCoordinateList
    click_queue,        \* the hand-off from the listener thread to the UI thread
    clicks,             \* history: number of button events the OS hook has delivered
    selected,           \* the selected row of the saved list, 0 when none is
    listener,           \* the listener thread: "none" | "running" | "failed" | "joined"
    saved_before,       \* history: SavedCoordinateList before the last operation on it
    \* scripts/launcher.py
    venv,               \* [dir, python]: whether ../venv and ../venv/bin/python exist
    entered,            \* history: the lines typed at the menu prompt, as typed
    launched            \* history: the child processes the launcher has run

gui_vars == <<variant, MOUSE_LIB, is_working, app, tracking_enabled, highlight_enabled,
              timer_active, timer_interval, timer_remaining, current_x, current_y,
              x_label, y_label, overlay_visible, overlay_geom, highlight_size,
              start_button, status_label, highlight_checkbox, size_spinbox,
              freq_spinbox, clipboard, pending, toggles, last_call>>

proc_vars == <<program, main_pc, startup, fallback, cli_runs, cli_end, cli_out, polls,
               exit_status>>

saved_vars == <<saved_list, click_queue, clicks, selected, listener, saved_before>>

launcher_vars == <<venv, entered, launched>>

vars == <<gui_vars, proc_vars, saved_vars, launcher_vars>>

config_vars == <<variant, MOUSE_LIB, is_working>>

----------------------------------------------------------------------------
(* Bounds of the model *)

MaxToggles == 4
MaxPending == 2
TimeStep == 1000
MaxPolls == 3
MaxClicks == 3
MaxPrompts == 3

(* Program constants *)

DefaultInterval == 50
DefaultSize == 50
StatusDelay == 3000

(* Inputs *)

Fail == <<>>
Positions == {<<120, 340>>, <<5, 5>>}
Outcomes == Positions \cup {Fail}
SizeChoices == {DefaultSize, 80}
IntervalChoices == {DefaultInterval, 200}
ErrorText == "cursor query failed"
ClipErrorText == "clipboard unavailable"

----------------------------------------------------------------------------
(* Python's str() of an int, and the f-string of copy_coordinates *)

Digits == <<"0", "1", "2", "3", "4", "5", "6", "7", "8", "9">>

RECURSIVE NatStr(_)
NatStr(n) == IF n < 10 THEN Digits[n + 1]
             ELSE NatStr(n \div 10) \o Digits[(n % 10) + 1]

str(n) == IF n < 0 THEN "-" \o NatStr(-n) ELSE NatStr(n)

\* The f-string without its blank.
coords_text_no_blank(x, y) == str(x) \o "," \o str(y)

coords_text(x, y) == str(x) \o ", " \o str(y)

Max(a, b) == IF a >= b THEN a ELSE b

----------------------------------------------------------------------------
(* Status texts *)

ReadyText == "Ready to track mouse coordinates"

TrackingText == "Tracking mouse coordinates..."

StoppedText(v) == IF v = "v1" THEN "Tracking stopped - Ready to start again"
                  ELSE "Tracking stopped"

CopiedText(t) == "Copied coordinates: " \o t

ErrorStatus(e) == "Error: " \o e

CopyErrorStatus(e) == "Error copying: " \o e

library_info(lib, working) ==
    LET lib_msg == "Using " \o lib \o " for mouse tracking"
    IN  IF ~working THEN lib_msg \o " (overlay disabled due to display issues)"
        ELSE lib_msg

----------------------------------------------------------------------------
(* The sampler.  A sample is a record of what one read of the cursor did:  *)
(* the position returned, how often each implementation was called, and    *)
(* whether the read raised.                                                *)

Sample(pos, pc, sc, raised) ==
    [pos |-> pos, primary_calls |-> pc, secondary_calls |-> sc, raised |-> raised]

NoSample == Sample(Fail, 0, 0, FALSE)

\* v1 reads pyautogui.position() directly: no fallback, the exception propagates.
direct_position(p) ==
    IF p # Fail THEN Sample(p, 1, 0, FALSE) ELSE Sample(Fail, 1, 0, TRUE)

\* get_mouse_position without its inner try: a failed primary query yields
\* the default position at once.
get_mouse_position_no_fallback(lib, p, s) ==
    IF lib = "pyautogui"
    THEN IF p # Fail THEN Sample(p, 1, 0, FALSE)
         ELSE Sample(<<0, 0>>, 1, 0, FALSE)
    ELSE IF s # Fail THEN Sample(s, 0, 1, FALSE)
         ELSE Sample(<<0, 0>>, 0, 1, FALSE)

\* v2: get_mouse_position().  p is the outcome of pyautogui.position(), s the
\* outcome of pynput's mouse.Controller().position.
get_mouse_position(lib, p, s) ==
    IF lib = "pyautogui"
    THEN IF p # Fail THEN Sample(p, 1, 0, FALSE)
         ELSE IF s # Fail THEN Sample(s, 1, 1, FALSE)
         ELSE Sample(<<0, 0>>, 1, 1, FALSE)
    ELSE IF lib = "pynput"
    THEN IF s # Fail THEN Sample(s, 0, 1, FALSE)
         ELSE Sample(<<0, 0>>, 0, 1, FALSE)
    ELSE Sample(<<0, 0>>, 0, 0, FALSE)

\* What last_call records: the handler, the outcomes the two cursor queries
\* had for it (Fail when it made none), the sample it took, and how its
\* clipboard write went ("none" when it made none).
Call(op, p, s, sample) ==
    [op |-> op, p |-> p, s |-> s, sample |-> sample, clip |-> "none"]

Handler(op) == Call(op, Fail, Fail, NoSample)

CopyCall(clip_ok) ==
    [Handler("copy_coordinates") EXCEPT !.clip = IF clip_ok THEN "ok" ELSE "failed"]

----------------------------------------------------------------------------
(* One-shot status timers.  "fresh" is history: no handler has written the *)
(* status since this timer was scheduled.                                  *)

Shot(ms) == [remaining |-> ms, fresh |-> TRUE]

MarkStale(p) == [i \in 1..Len(p) |-> [p[i] EXCEPT !.fresh = FALSE]]

Elapse(p, d) == [i \in 1..Len(p) |-> [p[i] EXCEPT !.remaining = Max(0, @ - d)]]

----------------------------------------------------------------------------
(* The overlay widget *)

Geometry(x, y, w, h) == [x |-> x, y |-> y, w |-> w, h |-> h]

\* QWidget.move keeps the size.
move(g, x, y) == [g EXCEPT !.x = x, !.y = y]

\* update_position putting the widget's corner on the cursor.
update_position_corner(g, size, x, y) == move(g, x, y)

\* HighlightOverlay.update_position: the top-left corner it moves the widget to.
update_position(g, size, x, y) == move(g, x - size, y - size)

\* HighlightOverlay.set_highlight_size: the geometry it sets.
set_highlight_size(size) == Geometry(0, 0, size * 2, size * 2)

OverlayCenter == <<overlay_geom.x + overlay_geom.w \div 2,
                   overlay_geom.y + overlay_geom.h \div 2>>

\* The overlay taken as working whatever its construction did.
overlay_always_usable == TRUE

\* self.overlay.is_working as the handlers and the widgets' setEnabled read
\* it; v1's overlay has no such flag and is always used.
OverlayUsable == variant = "v1" \/ is_working

----------------------------------------------------------------------------
(* Construction: MouseCoordinateTracker.__init__ *)

\* The fields and widgets as the constructor leaves them, status text aside.
widgets_init ==
    /\ app = "running"
    /\ tracking_enabled = FALSE
    /\ highlight_enabled = FALSE
    /\ timer_active = FALSE
    /\ timer_interval = DefaultInterval
    /\ timer_remaining = 0
    /\ current_x = 0
    /\ current_y = 0
    /\ x_label = "0"
    /\ y_label = "0"
    /\ overlay_visible = FALSE
    /\ overlay_geom = Geometry(0, 0, 100, 100)
    /\ highlight_size = DefaultSize
    /\ start_button = "Start Tracking"
    /\ highlight_checkbox = FALSE
    /\ size_spinbox = DefaultSize
    /\ freq_spinbox = DefaultInterval
    /\ clipboard = ""
    /\ pending = <<>>
    /\ toggles = 0
    /\ last_call = Handler("__init__")

tracker_init ==
    /\ variant \in {"v1", "v2"}
    /\ MOUSE_LIB \in IF variant = "v1" THEN {"pyautogui"} ELSE {"pyautogui", "pynput"}
    /\ is_working \in IF variant = "v1" THEN {TRUE} ELSE BOOLEAN
    /\ status_label = IF variant = "v1" THEN ReadyText
                      ELSE library_info(MOUSE_LIB, is_working)
    /\ widgets_init

\* No saved-coordinates feature: v1 and v2 have none.
no_saved_list ==
    /\ saved_list = <<>>
    /\ click_queue = <<>>
    /\ clicks = 0
    /\ selected = 0
    /\ listener = "none"
    /\ saved_before = <<>>

\* main() is inside app.exec_().
at_event_loop ==
    /\ main_pc = "event_loop"
    /\ startup = "none"
    /\ fallback = "none"
    /\ cli_runs = "none"
    /\ cli_end = "none"
    /\ cli_out = ""
    /\ polls = 0
    /\ exit_status = "none"

\* The script was not started from the launcher's menu.
no_launcher ==
    /\ venv = [dir |-> TRUE, python |-> TRUE]
    /\ entered = <<>>
    /\ launched = <<>>

in_event_loop ==
    /\ program = IF variant = "v1" THEN "gui_v1" ELSE "gui_v2"
    /\ at_event_loop

Init == tracker_init /\ in_event_loop /\ no_saved_list /\ no_launcher


----------------------------------------------------------------------------
(* toggle_tracking, start_tracking, stop_tracking *)

\* toggle_tracking with its condition lost: it always starts.
toggle_branch_always_start(tracking) == "start"

\* The branch toggle_tracking takes.
toggle_branch(tracking) == IF tracking THEN "stop" ELSE "start"

\* stop_tracking without its self.timer.stop().
timer_left_running == TRUE

\* QTimer.isActive() after stop_tracking's self.timer.stop().
timer_after_stop == FALSE

\* stop_tracking without its overlay.hide().
hide_on_stop_never(highlight, usable, visible) == visible

\* stop_tracking's "if self.highlight_enabled [and is_working]: overlay.hide()".
hide_on_stop(highlight, usable, visible) ==
    IF highlight /\ usable THEN FALSE ELSE visible

\* The button text that is never changed.
button_text_fixed(tracking) == "Start Tracking"

\* start_button.setText in start_tracking (tracking) and stop_tracking.
button_text(tracking) == IF tracking THEN "Stop Tracking" ELSE "Start Tracking"

start_tracking ==
    /\ tracking_enabled' = TRUE
    /\ timer_active' = TRUE
    /\ timer_remaining' = timer_interval
    /\ start_button' = button_text(TRUE)
    /\ status_label' = TrackingText
    /\ UNCHANGED overlay_visible

stop_tracking ==
    /\ tracking_enabled' = FALSE
    /\ timer_active' = timer_after_stop
    /\ timer_remaining' = IF timer_after_stop THEN timer_remaining ELSE 0
    /\ overlay_visible' = hide_on_stop(highlight_enabled, OverlayUsable, overlay_visible)
    /\ start_button' = button_text(FALSE)
    /\ status_label' = StoppedText(variant)

toggle_tracking ==
    /\ app = "running"
    /\ toggles < MaxToggles
    /\ IF toggle_branch(tracking_enabled) = "stop" THEN stop_tracking ELSE start_tracking
    /\ toggles' = toggles + 1
    /\ pending' = MarkStale(pending)
    /\ last_call' = Handler("toggle_tracking")
    /\ UNCHANGED <<config_vars, app, highlight_enabled, timer_interval, current_x,
                   current_y, x_label, y_label, overlay_geom, highlight_size,
                   highlight_checkbox, size_spinbox, freq_spinbox, clipboard>>

----------------------------------------------------------------------------
(* toggle_highlight: the slot of highlight_checkbox.toggled.  The checkbox *)
(* is disabled in v2 when the overlay is not working, so the user cannot   *)
(* toggle it then.                                                         *)

\* toggle_highlight showing the overlay without looking at tracking_enabled.
toggle_highlight_visible_any_state(checked, tracking, visible) == checked

\* isVisible() after toggle_highlight(checked) got past its is_working guard.
toggle_highlight_visible(checked, tracking, visible) ==
    IF ~checked THEN FALSE
    ELSE IF tracking THEN TRUE
    ELSE visible

toggle_highlight ==
    /\ app = "running"
    /\ OverlayUsable
    /\ LET checked == ~highlight_checkbox
       IN  /\ highlight_checkbox' = checked
           /\ IF ~OverlayUsable
              THEN UNCHANGED <<highlight_enabled, overlay_visible>>
              ELSE /\ highlight_enabled' = checked
                   /\ overlay_visible' =
                          toggle_highlight_visible(checked, tracking_enabled, overlay_visible)
    /\ last_call' = Handler("toggle_highlight")
    /\ UNCHANGED <<config_vars, app, tracking_enabled, timer_active, timer_interval,
                   timer_remaining, current_x, current_y, x_label, y_label,
                   overlay_geom, highlight_size, start_button, status_label,
                   size_spinbox, freq_spinbox, clipboard, pending, toggles>>

----------------------------------------------------------------------------
(* The spin boxes.  v1 creates them and connects neither; v2 connects      *)
(* size_spinbox.valueChanged to update_highlight_size and                  *)
(* freq_spinbox.valueChanged to update_timer_interval.  valueChanged is    *)
(* emitted only for a new value.  v2 disables size_spinbox when the        *)
(* overlay is not working.                                                 *)

update_highlight_size(size) ==
    /\ app = "running"
    /\ OverlayUsable
    /\ size # size_spinbox
    /\ size_spinbox' = size
    /\ IF variant = "v2" /\ OverlayUsable
       THEN /\ highlight_size' = size
            /\ overlay_geom' = set_highlight_size(size)
       ELSE UNCHANGED <<highlight_size, overlay_geom>>
    /\ last_call' = Handler("update_highlight_size")
    /\ UNCHANGED <<config_vars, app, tracking_enabled, highlight_enabled, timer_active,
                   timer_interval, timer_remaining, current_x, current_y, x_label,
                   y_label, overlay_visible, start_button, status_label,
                   highlight_checkbox, freq_spinbox, clipboard, pending, toggles>>

\* QTimer.setInterval on a running timer restarts it with the new interval.
update_timer_interval(interval) ==
    /\ app = "running"
    /\ interval # freq_spinbox
    /\ freq_spinbox' = interval
    /\ IF variant = "v2"
       THEN /\ timer_interval' = interval
            /\ timer_remaining' = IF timer_active THEN interval ELSE timer_remaining
       ELSE UNCHANGED <<timer_interval, timer_remaining>>
    /\ last_call' = Handler("update_timer_interval")
    /\ UNCHANGED <<config_vars, app, tracking_enabled, highlight_enabled, timer_active,
                   current_x, current_y, x_label, y_label, overlay_visible,
                   overlay_geom, highlight_size, start_button, status_label,
                   highlight_checkbox, size_spinbox, clipboard, pending, toggles>>

----------------------------------------------------------------------------
(* update_coordinates: the slot of timer.timeout.  It runs when the        *)
(* periodic timer is active and due, and the timer re-arms itself.         *)

\* The sample one tick takes: v1 queries pyautogui directly, v2 goes
\* through get_mouse_position.
tick_sample(v, lib, p, s) ==
    IF v = "v1" THEN direct_position(p) ELSE get_mouse_position(lib, p, s)

\* The outcomes a tick can see: v1 never calls pynput; with MOUSE_LIB =
\* "pynput" the import of pyautogui has failed for good.
TickInputs ==
    {ps \in Outcomes \X Outcomes :
        /\ variant = "v1" => ps[2] = Fail
        /\ MOUSE_LIB = "pynput" => ps[1] = Fail}

\* A tick whose except branch stops the timer.
timer_stops_on_error(raised) == ~raised

\* QTimer.isActive() after a tick: the timer is periodic and neither branch
\* of update_coordinates stops it.
timer_after_tick(raised) == TRUE

update_coordinates(p, s) ==
    /\ app = "running"
    /\ timer_active
    /\ timer_remaining = 0
    /\ timer_remaining' = timer_interval
    /\ LET r == tick_sample(variant, MOUSE_LIB, p, s)
       IN  /\ last_call' = Call("update_coordinates", p, s, r)
           /\ IF r.raised
              THEN /\ status_label' = ErrorStatus(ErrorText)
                   /\ pending' = MarkStale(pending)
                   /\ UNCHANGED <<current_x, current_y, x_label, y_label,
                                  overlay_visible, overlay_geom>>
              ELSE /\ current_x' = r.pos[1]
                   /\ current_y' = r.pos[2]
                   /\ x_label' = str(r.pos[1])
                   /\ y_label' = str(r.pos[2])
                   /\ IF highlight_enabled /\ OverlayUsable
                      THEN /\ overlay_visible' = TRUE
                           /\ overlay_geom' = update_position(overlay_geom, highlight_size,
                                                              r.pos[1], r.pos[2])
                      ELSE UNCHANGED <<overlay_visible, overlay_geom>>
                   /\ UNCHANGED <<status_label, pending>>
           /\ timer_active' = timer_after_tick(r.raised)
    /\ UNCHANGED <<config_vars, app, tracking_enabled, highlight_enabled,
                   timer_interval, highlight_size, start_button, highlight_checkbox,
                   size_spinbox, freq_spinbox, clipboard, toggles>>

----------------------------------------------------------------------------
(* copy_coordinates and reset_status.  v1 sets the clipboard outside any   *)
(* try block and schedules reset_status 3000 ms later; v2 catches a        *)
(* clipboard failure and schedules nothing.  An exception that leaves a    *)
(* PyQt5 slot either is printed and dropped or aborts the process,         *)
(* depending on the PyQt5 version and the excepthook.                      *)

copy_coordinates(clip_ok) ==
    /\ app = "running"
    /\ Len(pending) < MaxPending
    /\ LET text == coords_text(current_x, current_y)
       IN  IF variant = "v1"
           THEN IF clip_ok
                THEN /\ clipboard' = text
                     /\ status_label' = CopiedText(text)
                     /\ pending' = Append(MarkStale(pending), Shot(StatusDelay))
                     /\ app' = app
                ELSE /\ app' \in {"running", "aborted"}
                     /\ UNCHANGED <<clipboard, status_label, pending>>
           ELSE /\ IF clip_ok
                   THEN /\ clipboard' = text
                        /\ status_label' = CopiedText(text)
                   ELSE /\ status_label' = CopyErrorStatus(ClipErrorText)
                        /\ UNCHANGED clipboard
                /\ pending' = MarkStale(pending)
                /\ app' = app
    /\ last_call' = CopyCall(clip_ok)
    /\ UNCHANGED <<config_vars, tracking_enabled, highlight_enabled, timer_active,
                   timer_interval, timer_remaining, current_x, current_y, x_label,
                   y_label, overlay_visible, overlay_geom, highlight_size,
                   start_button, highlight_checkbox, size_spinbox, freq_spinbox,
                   toggles>>

\* The text reset_status writes.
canonical_status(tracking) == IF tracking THEN TrackingText ELSE ReadyText

reset_status ==
    /\ app = "running"
    /\ pending # <<>>
    /\ Head(pending).remaining = 0
    /\ status_label' = canonical_status(tracking_enabled)
    /\ pending' = MarkStale(Tail(pending))
    /\ last_call' = Handler("reset_status")
    /\ UNCHANGED <<config_vars, app, tracking_enabled, highlight_enabled, timer_active,
                   timer_interval, timer_remaining, current_x, current_y, x_label,
                   y_label, overlay_visible, overlay_geom, highlight_size,
                   start_button, highlight_checkbox, size_spinbox, freq_spinbox,
                   clipboard, toggles>>

----------------------------------------------------------------------------
(* closeEvent: the window closes and the event loop ends. *)

closeEvent ==
    /\ app = "running"
    /\ app' = "closed"
    /\ timer_active' = FALSE
    /\ timer_remaining' = 0
    /\ overlay_visible' = FALSE
    /\ last_call' = Handler("closeEvent")
    /\ UNCHANGED <<config_vars, tracking_enabled, highlight_enabled, timer_interval,
                   current_x, current_y, x_label, y_label, overlay_geom,
                   highlight_size, start_button, status_label, highlight_checkbox,
                   size_spinbox, freq_spinbox, clipboard, pending, toggles>>

----------------------------------------------------------------------------
(* Time passes while the event loop is idle. *)

Advance(d) ==
    /\ app = "running"
    /\ timer_active \/ pending # <<>>
    /\ timer_remaining' = IF timer_active THEN Max(0, timer_remaining - d) ELSE 0
    /\ pending' = Elapse(pending, d)
    /\ last_call' = Handler("idle")
    /\ UNCHANGED <<config_vars, app, tracking_enabled, highlight_enabled, timer_active,
                   timer_interval, current_x, current_y, x_label, y_label,
                   overlay_visible, overlay_geom, highlight_size, start_button,
                   status_label, highlight_checkbox, size_spinbox, freq_spinbox,
                   clipboard, toggles>>

----------------------------------------------------------------------------

SampleTick ==
    /\ \E ps \in TickInputs : update_coordinates(ps[1], ps[2])
    /\ UNCHANGED <<proc_vars, saved_vars, launcher_vars>>

ToggleTracking == toggle_tracking /\ UNCHANGED <<proc_vars, saved_vars, launcher_vars>>

ToggleHighlight == toggle_highlight /\ UNCHANGED <<proc_vars, saved_vars, launcher_vars>>

ChangeHighlightSize ==
    /\ \E size \in SizeChoices : update_highlight_size(size)
    /\ UNCHANGED <<proc_vars, saved_vars, launcher_vars>>

ChangeInterval ==
    /\ \E interval \in IntervalChoices : update_timer_interval(interval)
    /\ UNCHANGED <<proc_vars, saved_vars, launcher_vars>>

CopyCurrent ==
    /\ \E clip_ok \in BOOLEAN : copy_coordinates(clip_ok)
    /\ UNCHANGED <<proc_vars, saved_vars, launcher_vars>>

StatusExpiry == reset_status /\ UNCHANGED <<proc_vars, saved_vars, launcher_vars>>

Close == closeEvent /\ UNCHANGED <<proc_vars, saved_vars, launcher_vars>>

TimePasses == Advance(TimeStep) /\ UNCHANGED <<proc_vars, saved_vars, launcher_vars>>

Next ==
    \/ ToggleTracking
    \/ ToggleHighlight
    \/ ChangeHighlightSize
    \/ ChangeInterval
    \/ SampleTick
    \/ CopyCurrent
    \/ StatusExpiry
    \/ Close
    \/ TimePasses

Spec == Init /\ [][Next]_vars

----------------------------------------------------------------------------
(* The GUI with a sampler that does not fail, under fair scheduling: time  *)
(* passes, and the event loop runs the slot of a timer that is due again   *)
(* and again, even if the user's events restart the timer in between.      *)

GoodTickInputs ==
    {ps \in TickInputs :
        LET r == tick_sample(variant, MOUSE_LIB, ps[1], ps[2])
        IN  ~r.raised /\ r.pos \in Positions}

GoodTick ==
    /\ \E ps \in GoodTickInputs : update_coordinates(ps[1], ps[2])
    /\ UNCHANGED <<proc_vars, saved_vars, launcher_vars>>

LiveNext ==
    \/ ToggleTracking
    \/ ToggleHighlight
    \/ ChangeHighlightSize
    \/ ChangeInterval
    \/ GoodTick
    \/ CopyCurrent
    \/ StatusExpiry
    \/ Close
    \/ TimePasses

SpecLive == Init /\ [][LiveNext]_vars /\ SF_vars(GoodTick) /\ WF_vars(TimePasses)


----------------------------------------------------------------------------
(* The entry points: main() of mouse_tracker_gui.py, of                    *)
(* mouse_tracker_gui_v2.py and of mouse_tracker_cli.py, up to the event    *)
(* loop or the polling loop, and the process's exit.                       *)

\* Cursor positions the command-line loop is given.
CliPositions == {<<5, 5>>, <<120, 340>>, <<1920, 1080>>, <<-7, 12345>>}

\* Python's str.rjust(width): pad with blanks on the left, never truncate.
RECURSIVE rjust(_, _)
rjust(s, width) == IF Len(s) >= width THEN s ELSE rjust(" " \o s, width)

\* The line the loop prints for a position.
position_str(x, y) == "X: " \o rjust(str(x), 4) \o " Y: " \o rjust(str(y), 4)

StoppedLine == "Tracking stopped."

ProcInit ==
    /\ tracker_init
    /\ no_saved_list
    /\ no_launcher
    /\ program \in {"gui_v1", "gui_v2", "cli"}
    /\ variant = IF program = "gui_v2" THEN "v2" ELSE "v1"
    /\ main_pc = "main"
    /\ startup = "none"
    /\ fallback = "none"
    /\ cli_runs = "none"
    /\ cli_end = "none"
    /\ cli_out = ""
    /\ polls = 0
    /\ exit_status = "none"

\* sys.exit(code), or falling off the end of main().
exit(code) ==
    /\ main_pc' = "exited"
    /\ exit_status' = code

\* mouse_tracker_gui.main: the try block up to app.exec_().
gui_main(started) ==
    /\ program = "gui_v1"
    /\ main_pc = "main"
    /\ IF started
       THEN /\ main_pc' = "event_loop"
            /\ UNCHANGED <<startup, exit_status>>
       ELSE /\ startup' = "exception"
            /\ main_pc' = "except"
            /\ UNCHANGED exit_status
    /\ UNCHANGED <<program, fallback, cli_runs, cli_end, cli_out, polls>>

\* mouse_tracker_gui.main: the except block.  subprocess.run of the relative
\* path "src/mouse_tracker_cli.py" either runs the script ("runs"), starts an
\* interpreter that does not find it and returns ("not_found"), or raises.
gui_main_except(child) ==
    /\ program = "gui_v1"
    /\ main_pc = "except"
    /\ fallback' = "attempted"
    /\ CASE child = "runs" -> /\ cli_runs' = "subprocess"
                              /\ main_pc' = "cli_loop"
                              /\ UNCHANGED exit_status
         [] child = "not_found" -> exit("0") /\ UNCHANGED cli_runs
         [] child = "raises" -> exit("1") /\ UNCHANGED cli_runs
    /\ UNCHANGED <<program, startup, cli_end, cli_out, polls>>

\* mouse_tracker_gui_v2.main: check_display() and the branch on its result.
gui_v2_check_display(display_ok) ==
    /\ program = "gui_v2"
    /\ main_pc = "main"
    /\ IF display_ok
       THEN main_pc' = "create_app" /\ UNCHANGED startup
       ELSE main_pc' = "prompt" /\ startup' = "display"
    /\ UNCHANGED <<program, fallback, cli_runs, cli_end, cli_out, polls, exit_status>>

\* The relative import of the prompt branch: it needs a parent package.
import_cli(run_as) == IF run_as = "module" THEN "imported" ELSE "ImportError"

\* mouse_tracker_gui_v2.main: the prompt of the no-display branch.
gui_v2_prompt(response, run_as) ==
    /\ program = "gui_v2"
    /\ main_pc = "prompt"
    /\ CASE response = "y" ->
                /\ fallback' = "attempted"
                /\ IF import_cli(run_as) = "imported"
                   THEN /\ cli_runs' = "import"
                        /\ main_pc' = "cli_loop"
                        /\ UNCHANGED exit_status
                   ELSE exit("1") /\ UNCHANGED cli_runs
         [] response = "n" ->
                /\ fallback' = "declined"
                /\ exit("1")
                /\ UNCHANGED cli_runs
         [] response = "KeyboardInterrupt" ->
                /\ fallback' = "declined"
                /\ exit("1")
                /\ UNCHANGED cli_runs
    /\ UNCHANGED <<program, startup, cli_end, cli_out, polls>>

\* mouse_tracker_gui_v2.main: the try block up to app.exec_(), and its except.
gui_v2_main(started) ==
    /\ program = "gui_v2"
    /\ main_pc = "create_app"
    /\ IF started
       THEN /\ main_pc' = "event_loop"
            /\ UNCHANGED <<startup, exit_status>>
       ELSE /\ startup' = "exception"
            /\ exit("1")
    /\ UNCHANGED <<program, fallback, cli_runs, cli_end, cli_out, polls>>

\* sys.exit(app.exec_()) once the window is closed.
event_loop_returns ==
    /\ main_pc = "event_loop"
    /\ exit("0")
    /\ UNCHANGED <<program, startup, fallback, cli_runs, cli_end, cli_out, polls>>

\* mouse_tracker_cli.main: the banner, up to the loop.
cli_main ==
    /\ program = "cli"
    /\ main_pc = "main"
    /\ cli_runs' = "main"
    /\ main_pc' = "cli_loop"
    /\ UNCHANGED <<program, startup, fallback, cli_end, cli_out, polls, exit_status>>

\* What an exception leaving the polling loop does to the process that was
\* started: a child's death lets subprocess.run return and main() end.
status_after_error(runs) == IF runs = "subprocess" THEN "0" ELSE "traceback"

\* Ctrl-C reaches the parent's subprocess.run as well as the child.
status_after_interrupt(runs) == IF runs = "subprocess" THEN "traceback" ELSE "0"

\* Where a raising pyautogui.position() leaves the loop: only
\* KeyboardInterrupt is caught.
loop_after_error(runs) ==
    [pc |-> "exited", end |-> "error", status |-> status_after_error(runs)]

\* mouse_tracker_cli.main: one iteration of the while loop.
cli_poll(p) ==
    /\ main_pc = "cli_loop"
    /\ IF p = Fail
       THEN LET r == loop_after_error(cli_runs)
            IN  /\ main_pc' = r.pc
                /\ cli_end' = r.end
                /\ exit_status' = r.status
                /\ UNCHANGED <<cli_out, polls>>
       ELSE /\ polls < MaxPolls
            /\ cli_out' = position_str(p[1], p[2])
            /\ polls' = polls + 1
            /\ UNCHANGED <<main_pc, cli_end, exit_status>>
    /\ UNCHANGED <<program, startup, fallback, cli_runs>>

\* mouse_tracker_cli.main: the except KeyboardInterrupt block.
cli_interrupt ==
    /\ main_pc = "cli_loop"
    /\ cli_end' = "interrupt"
    /\ cli_out' = StoppedLine
    /\ exit(status_after_interrupt(cli_runs))
    /\ UNCHANGED <<program, startup, fallback, cli_runs, polls>>

GuiMain ==
    /\ \E started \in BOOLEAN : gui_main(started)
    /\ UNCHANGED <<gui_vars, saved_vars, launcher_vars>>

GuiMainExcept ==
    /\ \E child \in {"runs", "not_found", "raises"} : gui_main_except(child)
    /\ UNCHANGED <<gui_vars, saved_vars, launcher_vars>>

GuiV2CheckDisplay ==
    /\ \E display_ok \in BOOLEAN : gui_v2_check_display(display_ok)
    /\ UNCHANGED <<gui_vars, saved_vars, launcher_vars>>

GuiV2Prompt ==
    /\ \E response \in {"y", "n", "KeyboardInterrupt"}, run_as \in {"script", "module"} :
          gui_v2_prompt(response, run_as)
    /\ UNCHANGED <<gui_vars, saved_vars, launcher_vars>>

GuiV2Main ==
    /\ \E started \in BOOLEAN : gui_v2_main(started)
    /\ UNCHANGED <<gui_vars, saved_vars, launcher_vars>>

EventLoopReturns == event_loop_returns /\ UNCHANGED <<gui_vars, saved_vars, launcher_vars>>

CliMain == cli_main /\ UNCHANGED <<gui_vars, saved_vars, launcher_vars>>

CliPoll ==
    /\ \E p \in CliPositions \cup {Fail} : cli_poll(p)
    /\ UNCHANGED <<gui_vars, saved_vars, launcher_vars>>

CliInterrupt == cli_interrupt /\ UNCHANGED <<gui_vars, saved_vars, launcher_vars>>

ProcNext ==
    \/ GuiMain
    \/ GuiMainExcept
    \/ GuiV2CheckDisplay
    \/ GuiV2Prompt
    \/ GuiV2Main
    \/ EventLoopReturns
    \/ CliMain
    \/ CliPoll
    \/ CliInterrupt

SpecProcess == ProcInit /\ [][ProcNext]_vars

----------------------------------------------------------------------------
(* scripts/launcher.py: the menu.  A typed line is a sequence of           *)
(* characters; run_gui and run_cli block in subprocess.run until the child *)
(* has ended and ignore its exit status.                                   *)

Blank == {" ", "\t"}

\* The lines typed at the prompt.
TypedLines == {<<"1">>, <<" ", "1">>, <<"2", " ">>, <<"2">>, <<"3">>, <<"\t", "3", " ">>,
               <<>>, <<"4">>, <<"1", "2">>, <<"1", " ", "2">>, <<"g">>}

RECURSIVE lstrip(_)
lstrip(t) == IF t # <<>> /\ Head(t) \in Blank THEN lstrip(Tail(t)) ELSE t

RECURSIVE rstrip(_)
rstrip(t) ==
    IF t # <<>> /\ t[Len(t)] \in Blank THEN rstrip(SubSeq(t, 1, Len(t) - 1)) ELSE t

\* str.strip()
strip(t) == rstrip(lstrip(t))

\* check_virtual_env
check_virtual_env(v) == v.dir

\* The interpreter run_gui and run_cli start the script with.
child_python(v) == IF v.python THEN "venv/bin/python" ELSE "sys.executable"

\* The child process of run_gui / run_cli, and the status it ended with.
Child(script, v, status) ==
    [script |-> script, python |-> child_python(v), status |-> status]

ChildStatuses == {"0", "1", "traceback"}

\* The menu loop going on after every choice.
loop_never_breaks(choice) == "continue"

\* The menu loop: break after the choices 1, 2 and 3, prompt again otherwise.
loop_after(choice) ==
    IF choice \in {<<"1">>, <<"2">>, <<"3">>} THEN "break" ELSE "continue"

LauncherInit ==
    /\ variant = "v1"
    /\ MOUSE_LIB = "pyautogui"
    /\ is_working = TRUE
    /\ status_label = ReadyText
    /\ widgets_init
    /\ no_saved_list
    /\ program = "launcher"
    /\ main_pc = "main"
    /\ startup = "none"
    /\ fallback = "none"
    /\ cli_runs = "none"
    /\ cli_end = "none"
    /\ cli_out = ""
    /\ polls = 0
    /\ exit_status = "none"
    /\ venv \in {v \in [dir : BOOLEAN, python : BOOLEAN] : v.python => v.dir}
    /\ entered = <<>>
    /\ launched = <<>>

\* launcher.main up to the menu loop.
launcher_main ==
    /\ program = "launcher"
    /\ main_pc = "main"
    /\ IF check_virtual_env(venv)
       THEN main_pc' = "menu" /\ UNCHANGED exit_status
       ELSE exit("0")
    /\ UNCHANGED <<program, startup, fallback, cli_runs, cli_end, cli_out, polls>>
    /\ UNCHANGED launcher_vars

\* launcher.main: one pass of the menu loop, for a typed line.
launcher_choice(line, status) ==
    /\ program = "launcher"
    /\ main_pc = "menu"
    /\ Len(entered) < MaxPrompts
    /\ entered' = Append(entered, line)
    /\ LET choice == strip(line)
       IN  /\ launched' = IF choice = <<"1">>
                            THEN Append(launched, Child("mouse_tracker_gui.py", venv, status))
                          ELSE IF choice = <<"2">>
                            THEN Append(launched, Child("mouse_tracker_cli.py", venv, status))
                          ELSE launched
           /\ IF loop_after(choice) = "break"
              THEN exit("0")
              ELSE UNCHANGED <<main_pc, exit_status>>
    /\ UNCHANGED <<program, startup, fallback, cli_runs, cli_end, cli_out, polls>>
    /\ UNCHANGED venv

\* launcher.main: input() raises (Ctrl-C or end of input at the prompt);
\* nothing catches it.
launcher_input_raises ==
    /\ program = "launcher"
    /\ main_pc = "menu"
    /\ exit("traceback")
    /\ UNCHANGED <<program, startup, fallback, cli_runs, cli_end, cli_out, polls>>
    /\ UNCHANGED launcher_vars

LauncherMain == launcher_main /\ UNCHANGED <<gui_vars, saved_vars>>

LauncherChoice ==
    /\ \E line \in TypedLines, status \in ChildStatuses : launcher_choice(line, status)
    /\ UNCHANGED <<gui_vars, saved_vars>>

LauncherInputRaises == launcher_input_raises /\ UNCHANGED <<gui_vars, saved_vars>>

LauncherNext ==
    \/ LauncherMain
    \/ LauncherChoice
    \/ LauncherInputRaises

SpecLauncher == LauncherInit /\ [][LauncherNext]_vars

----------------------------------------------------------------------------
(* The saved-coordinates revision of the controller ("v3"): the global     *)
(* click listener, the saved list, ClearSaved and CopyAll.  The source     *)
(* tree holds no such revision; these definitions follow the transition    *)
(* table and the concurrency model of the specification (sections 4.2, 5   *)
(* and 7).  The listener thread only puts accepted events into the         *)
(* hand-off; the controller takes them out on the UI thread.               *)

ClickPositions == {<<10, 10>>, <<120, 340>>}
ClickEvents == [pos : ClickPositions, button : {"left", "right"}, pressed : BOOLEAN]

\* The listener reports secondary-button presses only.
accepted_event(e) == e.button = "right" /\ e.pressed

\* GlobalClick appending in either tracking state.
accept_click_always(tracking) == TRUE

\* GlobalClick: appended while Tracking, ignored while Stopped.
accept_click(tracking) == tracking

\* ClearSaved removing one entry only.
clear_list_drop_last(l) == IF l = <<>> THEN l ELSE SubSeq(l, 1, Len(l) - 1)

\* ClearSaved: empties the list unconditionally.
clear_list(l) == <<>>

\* CopyAll writing whatever the list holds.
copy_all_writes_always(l) == TRUE

\* CopyAll: writes only a non-empty list.
copy_all_writes(l) == l # <<>>

entry_text(q) == coords_text(q[1], q[2])

\* Newline-joined text of all entries.
RECURSIVE join_lines(_)
join_lines(l) ==
    IF l = <<>> THEN ""
    ELSE IF Len(l) = 1 THEN entry_text(l[1])
    ELSE entry_text(Head(l)) \o "\n" \o join_lines(Tail(l))

SavedText(q) == "Saved: " \o entry_text(q)
CopiedAllText(l) == "Copied " \o str(Len(l)) \o " coordinates"
NoSavedWarning == "No saved coordinates to copy"
NoSelectionWarning == "No coordinate selected"

\* Variables no saved-list operation writes.
display_vars == <<highlight_enabled, timer_interval, current_x, current_y, x_label,
                  y_label, overlay_geom, highlight_size, highlight_checkbox,
                  size_spinbox, freq_spinbox>>

SavedCall(op, pos) == [Handler(op) EXCEPT !.p = pos]

\* Listener start at application launch; a hook that cannot be installed
\* leaves the saved-coordinates feature inert.
start_listener(hook_ok) == IF hook_ok THEN "running" ELSE "failed"

SavedInit ==
    /\ variant = "v3"
    /\ MOUSE_LIB = "pyautogui"
    /\ is_working = TRUE
    /\ status_label = ReadyText
    /\ widgets_init
    /\ program = "gui_v3"
    /\ at_event_loop
    /\ no_launcher
    /\ saved_list = <<>>
    /\ click_queue = <<>>
    /\ clicks = 0
    /\ selected = 0
    /\ \E hook_ok \in BOOLEAN : listener = start_listener(hook_ok)
    /\ saved_before = <<>>

\* A transient status: it replaces the status and the expiry of an older one.
transient(text) ==
    /\ status_label' = text
    /\ pending' = <<Shot(StatusDelay)>>

\* ToggleTracking of the transition table.
saved_toggle_tracking ==
    /\ app = "running"
    /\ toggles < MaxToggles
    /\ tracking_enabled' = ~tracking_enabled
    /\ timer_active' = tracking_enabled'
    /\ timer_remaining' = IF tracking_enabled' THEN timer_interval ELSE 0
    /\ overlay_visible' = (tracking_enabled' /\ highlight_enabled)
    /\ start_button' = button_text(tracking_enabled')
    /\ status_label' = canonical_status(tracking_enabled')
    /\ pending' = MarkStale(pending)
    /\ toggles' = toggles + 1
    /\ last_call' = Handler("toggle_tracking")
    /\ UNCHANGED <<config_vars, app, display_vars, clipboard, saved_vars>>

\* The listener thread's callback: one button event from the OS hook.
listener_on_click(e) ==
    /\ app = "running"
    /\ listener = "running"
    /\ clicks < MaxClicks
    /\ clicks' = clicks + 1
    /\ click_queue' = IF accepted_event(e) THEN Append(click_queue, e.pos)
                      ELSE click_queue
    /\ last_call' = SavedCall("listener_on_click", e.pos)
    /\ UNCHANGED <<config_vars, app, display_vars, tracking_enabled, timer_active,
                   timer_remaining, overlay_visible, start_button, status_label,
                   clipboard, pending, toggles, saved_list, selected, listener,
                   saved_before>>

\* GlobalClick(button=secondary, pressed), handled on the UI thread.
on_global_click ==
    /\ app = "running"
    /\ click_queue # <<>>
    /\ click_queue' = Tail(click_queue)
    /\ saved_before' = saved_list
    /\ IF accept_click(tracking_enabled)
       THEN /\ saved_list' = Append(saved_list, Head(click_queue))
            /\ transient(SavedText(Head(click_queue)))
       ELSE UNCHANGED <<saved_list, status_label, pending>>
    /\ last_call' = SavedCall("on_global_click", Head(click_queue))
    /\ UNCHANGED <<config_vars, app, display_vars, tracking_enabled, timer_active,
                   timer_remaining, overlay_visible, start_button, clipboard,
                   toggles, clicks, selected, listener>>

\* ClearSaved.
clear_saved ==
    /\ app = "running"
    /\ saved_before' = saved_list
    /\ saved_list' = clear_list(saved_list)
    /\ selected' = IF selected \in 1..Len(saved_list') THEN selected ELSE 0
    /\ last_call' = Handler("clear_saved")
    /\ UNCHANGED <<config_vars, app, display_vars, tracking_enabled, timer_active,
                   timer_remaining, overlay_visible, start_button, status_label,
                   clipboard, pending, toggles, click_queue, clicks, listener>>

\* CopyAll; a failing clipboard write is reported as status text.
copy_all(clip_ok) ==
    /\ app = "running"
    /\ saved_before' = saved_list
    /\ IF copy_all_writes(saved_list)
       THEN IF clip_ok
            THEN /\ clipboard' = join_lines(saved_list)
                 /\ transient(CopiedAllText(saved_list))
            ELSE /\ transient(CopyErrorStatus(ClipErrorText))
                 /\ UNCHANGED clipboard
       ELSE /\ transient(NoSavedWarning)
            /\ UNCHANGED clipboard
    /\ last_call' = [Handler("copy_all") EXCEPT
                        !.clip = IF ~copy_all_writes(saved_list) THEN "none"
                                 ELSE IF clip_ok THEN "ok" ELSE "failed"]
    /\ UNCHANGED <<config_vars, app, display_vars, tracking_enabled, timer_active,
                   timer_remaining, overlay_visible, start_button, toggles,
                   saved_list, click_queue, clicks, selected, listener>>

\* The user selects a row of the saved list.
select_entry(i) ==
    /\ app = "running"
    /\ i \in 1..Len(saved_list)
    /\ selected' = i
    /\ last_call' = Handler("select_entry")
    /\ UNCHANGED <<config_vars, app, display_vars, tracking_enabled, timer_active,
                   timer_remaining, overlay_visible, start_button, status_label,
                   clipboard, pending, toggles, saved_list, click_queue, clicks,
                   listener, saved_before>>

\* CopySelected copying whatever the selection is.
has_selection_always(sel) == TRUE

\* CopySelected: a saved entry is selected.
has_selection(sel) == sel # 0

\* The text of the selected row; no row has no text.
selected_text(l, sel) == IF sel \in 1..Len(l) THEN entry_text(l[sel]) ELSE ""

\* CopySelected; a failing clipboard write is reported as status text.
copy_selected(clip_ok) ==
    /\ app = "running"
    /\ saved_before' = saved_list
    /\ IF has_selection(selected)
       THEN IF clip_ok
            THEN /\ clipboard' = selected_text(saved_list, selected)
                 /\ transient(CopiedText(selected_text(saved_list, selected)))
            ELSE /\ transient(CopyErrorStatus(ClipErrorText))
                 /\ UNCHANGED clipboard
       ELSE /\ transient(NoSelectionWarning)
            /\ UNCHANGED clipboard
    /\ last_call' = [Handler("copy_selected") EXCEPT
                        !.clip = IF ~has_selection(selected) THEN "none"
                                 ELSE IF clip_ok THEN "ok" ELSE "failed"]
    /\ UNCHANGED <<config_vars, app, display_vars, tracking_enabled, timer_active,
                   timer_remaining, overlay_visible, start_button, toggles,
                   saved_list, click_queue, clicks, selected, listener>>

\* Expiry of a transient status.
saved_status_expiry ==
    /\ app = "running"
    /\ pending # <<>>
    /\ Head(pending).remaining = 0
    /\ status_label' = canonical_status(tracking_enabled)
    /\ pending' = Tail(pending)
    /\ last_call' = Handler("reset_status")
    /\ UNCHANGED <<config_vars, app, display_vars, tracking_enabled, timer_active,
                   timer_remaining, overlay_visible, start_button, clipboard,
                   toggles, saved_vars>>

\* The listener left running when the window closes.
listener_after_close_left_running(l) == l

\* Listener stop at close: requested, and waited for until acknowledged.
listener_after_close(l) == IF l = "running" THEN "joined" ELSE l

\* The window closes: sampling and the indicator stop, the listener is
\* stopped and joined, and the event loop ends.
saved_close_event ==
    /\ app = "running"
    /\ app' = "closed"
    /\ timer_active' = FALSE
    /\ timer_remaining' = 0
    /\ overlay_visible' = FALSE
    /\ listener' = listener_after_close(listener)
    /\ last_call' = Handler("closeEvent")
    /\ UNCHANGED <<config_vars, display_vars, tracking_enabled, start_button,
                   status_label, clipboard, pending, toggles, saved_list,
                   click_queue, clicks, selected, saved_before>>

\* The process exits once the event loop has ended.
saved_exit ==
    /\ app = "closed"
    /\ main_pc = "event_loop"
    /\ exit("0")
    /\ UNCHANGED <<program, startup, fallback, cli_runs, cli_end, cli_out, polls>>

SavedToggleTracking == saved_toggle_tracking /\ UNCHANGED <<proc_vars, launcher_vars>>

ListenerClick ==
    /\ \E e \in ClickEvents : listener_on_click(e)
    /\ UNCHANGED <<proc_vars, launcher_vars>>

GlobalClick == on_global_click /\ UNCHANGED <<proc_vars, launcher_vars>>

ClearSaved == clear_saved /\ UNCHANGED <<proc_vars, launcher_vars>>

CopyAll ==
    /\ \E clip_ok \in BOOLEAN : copy_all(clip_ok)
    /\ UNCHANGED <<proc_vars, launcher_vars>>

SelectEntry ==
    /\ \E i \in 1..MaxClicks : select_entry(i)
    /\ UNCHANGED <<proc_vars, launcher_vars>>

CopySelected ==
    /\ \E clip_ok \in BOOLEAN : copy_selected(clip_ok)
    /\ UNCHANGED <<proc_vars, launcher_vars>>

SavedStatusExpiry == saved_status_expiry /\ UNCHANGED <<proc_vars, launcher_vars>>

SavedClose == saved_close_event /\ UNCHANGED <<proc_vars, launcher_vars>>

SavedExit == saved_exit /\ UNCHANGED <<gui_vars, saved_vars, launcher_vars>>

SavedNext ==
    \/ SavedToggleTracking
    \/ ListenerClick
    \/ GlobalClick
    \/ ClearSaved
    \/ CopyAll
    \/ SelectEntry
    \/ CopySelected
    \/ SavedStatusExpiry
    \/ TimePasses
    \/ SavedClose
    \/ SavedExit

SpecSaved == SavedInit /\ [][SavedNext]_vars

----------------------------------------------------------------------------
(* Properties *)

Running == app = "running"

LastOp == last_call.op

\* The texts copy_coordinates can leave in the status label.
CopiedTexts == {CopiedText(coords_text(q[1], q[2])) : q \in Positions \cup {<<0, 0>>}}

\* C1: tracking starts Stopped and every toggle_tracking flips it, whatever
\* else happens in between: after n toggles it is Tracking iff n is odd.
C1_ToggleParity == tracking_enabled <=> (toggles % 2 = 1)

C1_Witness ==
    /\ toggles = 3
    /\ tracking_enabled
    /\ LastOp = "copy_coordinates"

\* C2: the periodic timer is active only while tracking, update_coordinates
\* runs only while tracking, and while tracking stays off the sampled
\* position and the displayed coordinates do not change.
C2_NoTickWhileStopped ==
    /\ [](timer_active => tracking_enabled)
    /\ [][last_call'.op = "update_coordinates" => tracking_enabled]_vars
    /\ [][(~tracking_enabled /\ ~tracking_enabled')
            => UNCHANGED <<current_x, current_y, x_label, y_label>>]_vars

C2_Witness ==
    /\ ~tracking_enabled
    /\ ~timer_active
    /\ toggles = 2
    /\ <<current_x, current_y>> = <<120, 340>>
    /\ LastOp = "idle"
    /\ Running

\* C3: the indicator is visible only if the highlight flag is on and the
\* state is Tracking.
C3_VisibleOnlyWhenHighlightAndTracking ==
    overlay_visible => (highlight_enabled /\ tracking_enabled)

\* Tracking was stopped with the highlight on, after a tick had shown and
\* moved the indicator.
C3_Witness ==
    /\ LastOp = "toggle_tracking"
    /\ ~tracking_enabled
    /\ highlight_enabled
    /\ ~overlay_visible
    /\ overlay_geom.x = 120 - highlight_size

\* C4: every copied-coordinates status has a status expiry scheduled that
\* nothing has superseded, and when such an expiry fires the status becomes
\* the canonical text of the tracking state of that moment; in each variant.
C4_TransientStatusReverts ==
    /\ [](Running /\ status_label \in CopiedTexts
            => \E i \in 1..Len(pending) : pending[i].fresh)
    /\ [][(last_call'.op = "reset_status" /\ Head(pending).fresh)
            => status_label' = canonical_status(tracking_enabled)]_vars

\* C5: the expiry of a status that a newer status has superseded, firing
\* before any expiry of the newer status is due, leaves the newer status in
\* place.
C5_OldExpiryKeepsNewerStatus ==
    [][(/\ last_call'.op = "reset_status"
        /\ ~Head(pending).fresh
        /\ \A i \in 1..Len(pending) : pending[i].fresh => pending[i].remaining > 0)
            => status_label' = status_label]_vars

\* C6: a tick whose cursor queries all fail shows an error status, and
\* leaves the timer running, the tracking state as it was and the process
\* alive.
C6_SamplingErrorSurfaced ==
    [][(last_call'.op = "update_coordinates" /\ last_call'.p = Fail /\ last_call'.s = Fail)
            => /\ status_label' = ErrorStatus(ErrorText)
               /\ timer_active'
               /\ tracking_enabled' = tracking_enabled
               /\ app' = "running"]_vars

C8_BothFailReported ==
    [][(/\ last_call'.op = "update_coordinates"
        /\ last_call'.sample.primary_calls = 1
        /\ last_call'.sample.secondary_calls = 1
        /\ last_call'.p = Fail
        /\ last_call'.s = Fail)
            => (status_label' = ErrorStatus(ErrorText) /\ app' = "running")]_vars

\* C9: toggle_highlight(False) hides the indicator in both tracking states;
\* toggle_highlight(True) shows it at once while Tracking and leaves it
\* hidden while Stopped, and it then stays hidden for as long as tracking
\* stays off.
C9_ToggleHighlightEffect ==
    /\ [][last_call'.op = "toggle_highlight"
            => /\ highlight_enabled' = ~highlight_enabled
               /\ ~highlight_enabled' => ~overlay_visible'
               /\ (highlight_enabled' /\ tracking_enabled) => overlay_visible'
               /\ (highlight_enabled' /\ ~tracking_enabled) => ~overlay_visible']_vars
    /\ [][(~tracking_enabled /\ ~tracking_enabled' /\ ~overlay_visible)
            => ~overlay_visible']_vars

\* The highlight was turned on while tracking: the indicator is visible
\* before any tick has moved it.
C9_Witness ==
    /\ LastOp = "toggle_highlight"
    /\ highlight_enabled
    /\ tracking_enabled
    /\ overlay_visible
    /\ overlay_geom = Geometry(0, 0, 100, 100)

\* C10: whenever the indicator is visible after a sample was taken, it is
\* centred on the last sampled position and is twice the configured size
\* wide.
C10_VisibleIndicatorCentred ==
    (overlay_visible /\ <<current_x, current_y>> \in Positions) =>
        /\ OverlayCenter = <<current_x, current_y>>
        /\ overlay_geom.w = 2 * highlight_size


\* The clipboard text the source's comments and the scenarios give for the
\* positions of the model.
PositionText(q) ==
    CASE q = <<0, 0>> -> "0, 0"
      [] q = <<5, 5>> -> "5, 5"
      [] q = <<120, 340>> -> "120, 340"

\* C11: a copy whose clipboard write succeeds puts exactly "x, y" of the
\* last sampled position ((0, 0) before any sample) on the clipboard, in
\* either tracking state, and leaves the tracking state, the highlight flag
\* and the sampled position alone.
C11_CopyWritesLastPosition ==
    [][(last_call'.op = "copy_coordinates" /\ last_call'.clip = "ok")
            => /\ clipboard' = PositionText(<<current_x, current_y>>)
               /\ UNCHANGED <<tracking_enabled, highlight_enabled,
                              current_x, current_y>>]_vars

\* A copy made after tracking was stopped on the sample (120, 340).
C11_Witness ==
    /\ LastOp = "copy_coordinates"
    /\ last_call.clip = "ok"
    /\ ~tracking_enabled
    /\ <<current_x, current_y>> = <<120, 340>>
    /\ clipboard = "120, 340"

\* C12: a change of the rate spin box becomes the timer's interval, whether
\* or not the timer is active, and an active timer does not fire before the
\* new interval has passed since the change; in each variant.
C12_IntervalChangeTakesEffect ==
    [][last_call'.op = "update_timer_interval"
            => /\ timer_interval' = freq_spinbox'
               /\ timer_active => timer_remaining' = freq_spinbox']_vars

\* C13: only toggle_tracking changes the tracking state, and no tick,
\* highlight toggle, copy, interval or size change, status expiry or
\* passing of time changes whether the timer is active.
C13_OnlyToggleChangesTracking ==
    [][last_call'.op # "toggle_tracking"
            => /\ tracking_enabled' = tracking_enabled
               /\ last_call'.op # "closeEvent" => timer_active' = timer_active]_vars

\* A failed tick has left tracking and the timer on.
C13_Witness ==
    /\ LastOp = "update_coordinates"
    /\ last_call.sample.raised
    /\ tracking_enabled
    /\ timer_active

\* C14: a copy whose clipboard write fails reports the failure in the
\* status, writes nothing, and leaves the process running; in each variant.
C14_ClipboardFailureReported ==
    [][(last_call'.op = "copy_coordinates" /\ last_call'.clip = "failed")
            => /\ status_label' \in {CopyErrorStatus(ClipErrorText),
                                     ErrorStatus(ClipErrorText)}
               /\ clipboard' = clipboard
               /\ app' = "running"]_vars

\* C17: the start/stop button reads "Stop Tracking" exactly while tracking,
\* and right after toggle_tracking the status is the tracking text (after a
\* start) or the stopped text (after a stop).
C17_ButtonMatchesTracking ==
    /\ [](start_button = IF tracking_enabled THEN "Stop Tracking" ELSE "Start Tracking")
    /\ [][last_call'.op = "toggle_tracking"
            => status_label' = IF tracking_enabled' THEN TrackingText
                               ELSE StoppedText(variant)]_vars

C17_Witness ==
    /\ LastOp = "toggle_tracking"
    /\ toggles = 2
    /\ start_button = "Start Tracking"
    /\ status_label = StoppedText(variant)

----------------------------------------------------------------------------
(* C15: a sampling failure is never fatal in any variant, the command-line *)
(* variant included: when the cursor query raises during the CLI polling   *)
(* loop the process does not terminate and polling continues, and the loop *)
(* ends only on a user interrupt.                                          *)

C15_CliSurvivesSamplingFailure ==
    [][(main_pc = "cli_loop" /\ main_pc' # "cli_loop")
            => cli_end' = "interrupt"]_vars

----------------------------------------------------------------------------
(* C16: an unrecoverable start-up failure of the GUI falls back to running *)
(* the text-only variant rather than simply exiting, on every start-up     *)
(* failure path of each GUI entry point: the process never exits after a   *)
(* failed start-up without having started the fallback (a user who is      *)
(* asked and declines aside).                                              *)

C16_StartupFailureFallsBack ==
    (main_pc = "exited" /\ startup # "none" /\ fallback # "declined")
        => fallback = "attempted"

----------------------------------------------------------------------------
(* C18: a secondary-button GlobalClick press is appended to the saved list *)
(* iff the tracking state is Tracking when the controller receives the     *)
(* event; a click arriving while Stopped leaves the list unchanged and is  *)
(* dropped: nothing but a GlobalClick received while Tracking ever adds to *)
(* the list, so no click is kept for an append when tracking starts.       *)

----------------------------------------------------------------------------
(* C19: ClearSaved yields an empty saved list from any prior list, of any  *)
(* size and in either tracking state, and applying it twice gives the same *)
(* result as applying it once.                                             *)

C19_ClearSavedEmptiesIdempotent ==
    /\ [](LastOp = "clear_saved" => saved_list = <<>>)
    /\ [][(last_call.op = "clear_saved" /\ last_call'.op = "clear_saved")
            => UNCHANGED <<saved_list, click_queue, tracking_enabled, status_label,
                           clipboard, pending>>]_vars

C19_Witness ==
    /\ LastOp = "clear_saved"
    /\ Len(saved_before) = 2
    /\ tracking_enabled
    /\ saved_list = <<>>

----------------------------------------------------------------------------
(* C20: CopyAll on an empty saved list performs no clipboard write (the    *)
(* clipboard's content is unchanged) and sets a warning status.            *)

C20_CopyAllEmptyWarns ==
    [][(last_call'.op = "copy_all" /\ saved_list = <<>>)
            => /\ clipboard' = clipboard
               /\ last_call'.clip = "none"
               /\ status_label' = NoSavedWarning]_vars

C20_Witness ==
    /\ LastOp = "copy_all"
    /\ saved_list = <<>>
    /\ saved_before = <<>>
    /\ clipboard = "120, 340\n10, 10"
    /\ status_label = NoSavedWarning

----------------------------------------------------------------------------
(* C21: CopySelected when no saved entry is selected performs no clipboard *)
(* write (the clipboard's content is unchanged) and sets a warning status. *)

C21_CopySelectedNoneWarns ==
    [][(last_call'.op = "copy_selected" /\ selected = 0)
            => /\ clipboard' = clipboard
               /\ last_call'.clip = "none"
               /\ status_label' = NoSelectionWarning]_vars

C21_Witness ==
    /\ LastOp = "copy_selected"
    /\ selected = 0
    /\ Len(saved_list) = 2
    /\ clipboard = "120, 340\n10, 10"
    /\ status_label = NoSelectionWarning

----------------------------------------------------------------------------
\* The controller's state, which only the UI thread writes.
ControllerState == <<tracking_enabled, highlight_enabled, saved_list, selected,
                     status_label, clipboard, pending, start_button, timer_active,
                     timer_interval, current_x, current_y, overlay_visible>>

(* C22: the background global-click listener is started at application     *)
(* launch, and on every path to process exit it is stopped and joined      *)
(* before the process exits; the listener thread never mutates controller  *)
(* state directly, only through the hand-off to the UI thread.             *)

----------------------------------------------------------------------------
(* C23: with the highlight flag on while tracking is active, whether the   *)
(* flag was set before or after tracking started, the indicator is visible *)
(* and centred on the sampled position after a successful sample tick;     *)
(* under fair ticking and a non-failing sampler, Tracking and              *)
(* HighlightEnabled leads to the indicator being visible (as long as the   *)
(* window is open).                                                        *)

C23_HighlightLeadsToVisible ==
    (tracking_enabled /\ highlight_enabled) ~> (overlay_visible \/ ~Running)

\* A tick taken with tracking and the flag on shows the indicator centred
\* on the position it sampled.
C23_TickShowsCentred ==
    [][(last_call'.op = "update_coordinates" /\ tracking_enabled /\ highlight_enabled)
            => /\ overlay_visible'
               /\ OverlayCenter' = last_call'.sample.pos
               /\ <<current_x', current_y'>> = last_call'.sample.pos]_vars

\* C23 as it holds: the tick part as stated, and Tracking and
\* HighlightEnabled leads to the indicator being visible unless tracking or
\* the flag is switched off, or the window is closed, before the first tick.
C23_HighlightLeadsToVisibleUnlessOff ==
    /\ C23_TickShowsCentred
    /\ (tracking_enabled /\ highlight_enabled)
           ~> (overlay_visible \/ ~tracking_enabled \/ ~highlight_enabled \/ ~Running)

C23_Witness ==
    /\ LastOp = "update_coordinates"
    /\ tracking_enabled
    /\ highlight_enabled
    /\ toggles = 3
    /\ overlay_visible
    /\ OverlayCenter = <<120, 340>>
    /\ last_call.sample.pos = <<120, 340>>

----------------------------------------------------------------------------
(* C24: ChangeHighlightSize changes only the indicator's radius: it leaves *)
(* the indicator's visibility, the highlight flag, the tracking state and  *)
(* the last sampled position unchanged, and a visible indicator that is    *)
(* centred on the last sampled position stays centred on it.               *)

C24_SizeChangeKeepsCentre ==
    [][last_call'.op = "update_highlight_size"
            => /\ UNCHANGED <<overlay_visible, highlight_enabled, tracking_enabled,
                              current_x, current_y>>
               /\ (/\ overlay_visible
                   /\ <<current_x, current_y>> \in Positions
                   /\ OverlayCenter = <<current_x, current_y>>)
                      => OverlayCenter' = <<current_x, current_y>>]_vars

----------------------------------------------------------------------------
(* C25: a failed sample does not overwrite the last good position: after a *)
(* tick in which every cursor query fails, the last sampled position, the  *)
(* displayed X/Y text and the indicator's position are what they were      *)
(* before that tick, in each GUI variant.                                  *)

C25_FailedTickKeepsPosition ==
    [][(/\ last_call'.op = "update_coordinates"
        /\ last_call'.p = Fail
        /\ last_call'.s = Fail
        /\ <<current_x, current_y>> \in Positions)
            => UNCHANGED <<current_x, current_y, x_label, y_label, overlay_geom>>]_vars

----------------------------------------------------------------------------
(* C26: in the enhanced variant (v2), when the overlay failed to           *)
(* initialise (is_working is false), no sequence of ToggleHighlight,       *)
(* ToggleTracking, ChangeHighlightSize and sample ticks ever sets the      *)
(* highlight flag or makes the indicator visible.                          *)

C26_BrokenOverlayNeverShown ==
    (variant = "v2" /\ ~is_working) => (~highlight_enabled /\ ~overlay_visible)

C26_Witness ==
    /\ variant = "v2"
    /\ ~is_working
    /\ LastOp = "update_coordinates"
    /\ tracking_enabled
    /\ toggles = 3
    /\ <<current_x, current_y>> = <<120, 340>>
    /\ ~highlight_enabled
    /\ ~overlay_visible

----------------------------------------------------------------------------
\* What the lines of the model mean at the prompt.
Choice1 == {<<"1">>, <<" ", "1">>}
Choice2 == {<<"2">>, <<"2", " ">>}
Choice3 == {<<"3">>, <<"\t", "3", " ">>}
ValidLines == Choice1 \cup Choice2 \cup Choice3

Scripts == [i \in 1..Len(launched) |-> launched[i].script]

(* C27: the launcher menu launches at most one variant per run: an invalid *)
(* choice launches nothing and prompts again; choice 1 launches only the   *)
(* GUI, choice 2 only the CLI, choice 3 nothing; after the first valid     *)
(* choice the menu loop ends; and when the virtual-environment check fails *)
(* the menu is never shown and nothing is launched.                        *)

C27_LauncherLaunchesAtMostOne ==
    /\ [](Len(launched) <= 1)
    /\ [](~venv.dir => (entered = <<>> /\ launched = <<>> /\ main_pc # "menu"))
    /\ [](\A i \in 1..Len(entered) : entered[i] \in ValidLines => i = Len(entered))
    /\ []((entered # <<>> /\ entered[Len(entered)] \in ValidLines)
            => /\ main_pc = "exited"
               /\ Scripts = IF entered[Len(entered)] \in Choice1
                              THEN <<"mouse_tracker_gui.py">>
                            ELSE IF entered[Len(entered)] \in Choice2
                              THEN <<"mouse_tracker_cli.py">>
                            ELSE <<>>)
    /\ []((entered = <<>> \/ entered[Len(entered)] \notin ValidLines)
            => launched = <<>>)
    /\ [][(entered' # entered /\ entered'[Len(entered')] \notin ValidLines)
            => (main_pc' = "menu" /\ launched' = launched)]_vars

C27_Witness ==
    /\ program = "launcher"
    /\ main_pc = "exited"
    /\ entered = <<<<"4">>, <<"1", " ", "2">>, <<" ", "1">>>>
    /\ Len(launched) = 1
    /\ launched[1].script = "mouse_tracker_gui.py"
    /\ launched[1].python = "sys.executable"

=============================================================================
